---- MODULE Spec2Model ----
(***************************************************************************)
(* One turn of the chat endpoint: POST fans a request out to the selected  *)
(* models, records a status per model, builds the choices, and             *)
(* runCrossEvaluation lets every answering model judge the other answers   *)
(* and tallies the votes into scores and a winner.                         *)
(*                                                                         *)
(* JavaScript values are modelled as follows.                              *)
(*   - A value that is a string or null/undefined (message.content) is a   *)
(*     record [t, s]: t is the type tag and s the characters of a string.  *)
(*   - `string | null` fields that are only compared (model ids, the       *)
(*     question) are TLA+ strings, with Null standing for null.            *)
(*   - The object globalScores is the ordered list of its own properties   *)
(*     (Object.entries order is insertion order for these keys); its       *)
(*     prototype is Object.prototype, see ProtoKeys.                       *)
(***************************************************************************)
EXTENDS Integers, Sequences, FiniteSets, TLC

\* ------------------------------------------------------------ registry
NVIDIA_MODEL == "nvidia/nemotron-3-nano-30b-a3b:free"
MISTRAL_MODEL == "mistralai/devstral-2512:free"
MOLMO_MODEL == "allenai/molmo-2-8b:free"
TNG_MODEL == "tngtech/tng-r1t-chimera:free"
GEMMA_MODEL == "google/gemma-3n-e4b-it:free"
MIMO_MODEL == "xiaomi/mimo-v2-flash:free"

\* The six entries of allModels, in the order of the array literal.
AllModelIds ==
  <<NVIDIA_MODEL, MISTRAL_MODEL, MOLMO_MODEL, TNG_MODEL, GEMMA_MODEL, MIMO_MODEL>>

\* Bound: the model checks a registry made of the first NumBackends entries.
NumBackends == 3
\* Bound: the longest activeModels array a request carries.
MaxSel == 2

allModels == SubSeq(AllModelIds, 1, NumBackends)
RegistryIds == {allModels[i] : i \in 1..Len(allModels)}

\* ------------------------------------------------------------ values
Null == "<null>"
NullIndex == 0 - 1

Str(s) == [t |-> "string", s |-> s]
Undefined == [t |-> "undefined", s |-> <<>>]
JsNull == [t |-> "null", s |-> <<>>]

\* An id no candidate carries, and an id that names a property every object
\* inherits from Object.prototype (constructor, toString, valueOf, ...).
UnknownId == "unknown/model"
ProtoKeys == {"constructor"}

Range(seq) == {seq[i] : i \in 1..Len(seq)}

\* JSON.stringify of a content value: undefined has no JSON text.
JSONstringify(v) ==
  IF v.t = "string" THEN Str(<<"\"">> \o v.s \o <<"\"">>)
  ELSE IF v.t = "null" THEN Str(<<"n", "u", "l", "l">>)
  ELSE Undefined

IsSpace(c) == c \in {" ", "\n", "\t"}

RECURSIVE TrimStart(_)
TrimStart(s) ==
  IF s # <<>> /\ IsSpace(Head(s)) THEN TrimStart(Tail(s)) ELSE s

RECURSIVE TrimEnd(_)
TrimEnd(s) ==
  IF s # <<>> /\ IsSpace(s[Len(s)]) THEN TrimEnd(SubSeq(s, 1, Len(s) - 1)) ELSE s

\* String.prototype.trim
Trim(s) == TrimEnd(TrimStart(s))

\* SelectSeq with the element's position, as Array.prototype.filter/map see it.
RECURSIVE FilterSeq(_, _)
FilterSeq(seq, keep) ==
  IF seq = <<>> THEN <<>>
  ELSE IF Head(seq) \in keep THEN <<Head(seq)>> \o FilterSeq(Tail(seq), keep)
  ELSE FilterSeq(Tail(seq), keep)

\* ------------------------------------------------------------ inputs
\* The last user message's content when it is a string, else null.
Questions == {Null, "", "What is 2+2?"}

\* Entries a client may put in activeModels: registry ids and an id the
\* registry does not know.
SelectionIds == RegistryIds \cup {UnknownId}

RECURSIVE SeqsUpTo(_, _)
SeqsUpTo(S, n) ==
  IF n = 0 THEN {<<>>}
  ELSE LET shorter == SeqsUpTo(S, n - 1)
       IN shorter \cup {Append(q, x) : q \in {r \in shorter : Len(r) = n - 1}, x \in S}

\* body.activeModels: absent (not an array), or an array of at most MaxSel ids.
Selections ==
  {[isArray |-> FALSE, ids |-> <<>>]}
    \cup {[isArray |-> TRUE, ids |-> q] : q \in SeqsUpTo(SelectionIds, MaxSel)}

\* The request: req.json() throws, or yields a body without a messages array,
\* or a body with messages (of which the last user question matters) and a selection.
Bodies ==
  {[kind |-> k, question |-> Null, activeModels |-> [isArray |-> FALSE, ids |-> <<>>]] :
      k \in {"invalid", "nomessages"}}
    \cup {[kind |-> "ok", question |-> q, activeModels |-> a] :
            q \in Questions, a \in Selections}

\* message.content of a model's first choice: a non-blank string, a
\* whitespace-only string, the empty string, or absent.
RawContents == {Str(<<"4">>), Str(<<" ">>), Str(<<>>), Undefined}

Pending == [st |-> "pending", ok |-> FALSE, status |-> 0, body |-> Null,
            json |-> FALSE, hasMessage |-> FALSE, content |-> Undefined]
Idle == [Pending EXCEPT !.st = "idle"]
Rejected == [Pending EXCEPT !.st = "rejected"]

\* res.text() of a failed response: throws, or is a text.
TextThrows == "<throws>"
FailBodies == {TextThrows, "rate limit exceeded"}

\* The non-success responses followed: a 429 whose body is a text, and a 500
\* whose res.text() throws.
FailResponses ==
  {[Pending EXCEPT !.st = "resolved", !.status = 429, !.body = "rate limit exceeded"],
   [Pending EXCEPT !.st = "resolved", !.status = 500, !.body = TextThrows]}

\* What fetch resolves to for a generation call: a non-success response, or
\* a success whose res.json() throws, has no choices[0].message, or has a
\* message with some content.
GenResponses ==
  FailResponses
    \cup {[Pending EXCEPT !.st = "resolved", !.ok = TRUE, !.status = 200]}
    \cup {[Pending EXCEPT !.st = "resolved", !.ok = TRUE, !.status = 200, !.json = TRUE]}
    \cup {[Pending EXCEPT !.st = "resolved", !.ok = TRUE, !.status = 200, !.json = TRUE,
                          !.hasMessage = TRUE, !.content = c] : c \in RawContents}

\* ------------------------------------------------------------ state
VARIABLES
  apiKey,         \* process.env.OPENROUTER_API_KEY is set
  body,           \* the request body
  pc,             \* where the turn is
  modelsToCall,   \* the registry entries selected, in registry order
  gen,            \* per model: its generation fetch
  genCalls,       \* per model: generation requests issued
  modelStatuses,  \* model id -> {ok, status, body}
  choices,        \* [{model, message}]
  userQuestion,
  answers,        \* runCrossEvaluation: the valid answers
  globalScores,   \* runCrossEvaluation: the own properties of the tally, in order
  judge,          \* per model: its judge call
  judgeCalls,     \* per model: judge requests issued
  judgeMessages,  \* per model: the candidates listed in its judge request
  parser,         \* a judge's reply on its way from content to vote
  client,         \* the page: enabledModels, isLoading, the request in flight
  judgesResults,  \* runCrossEvaluation: the votes, in completion order
  response        \* the NextResponse of the turn

vars == <<apiKey, body, pc, modelsToCall, gen, genCalls, modelStatuses, choices,
          userQuestion, answers, globalScores, judge, judgeCalls, judgeMessages, judgesResults,
          response, parser, client>>

EmptyMap == [m \in {} |-> Null]

NullEvaluation ==
  [isNull |-> TRUE, scores |-> <<>>, winnerModelId |-> Null,
   winnerIndex |-> NullIndex, judges |-> <<>>]

NoResponse ==
  [status |-> 0, error |-> "", details |-> EmptyMap, choices |-> <<>>,
   evaluation |-> NullEvaluation, modelStatuses |-> EmptyMap]

ErrorResponse(status, error) ==
  [NoResponse EXCEPT !.status = status, !.error = error]

\* The columns of the page, one per registry model: MODEL_COLUMNS.
AllColumns ==
  <<[key |-> "nvidia", modelId |-> NVIDIA_MODEL],
    [key |-> "mistral", modelId |-> MISTRAL_MODEL],
    [key |-> "molmo", modelId |-> MOLMO_MODEL],
    [key |-> "tng", modelId |-> TNG_MODEL],
    [key |-> "gemma", modelId |-> GEMMA_MODEL],
    [key |-> "mimo", modelId |-> MIMO_MODEL]>>
MODEL_COLUMNS == SubSeq(AllColumns, 1, NumBackends)
ColumnKeys == {MODEL_COLUMNS[i].key : i \in 1..Len(MODEL_COLUMNS)}

\* No response received since the last submit.
NoReply ==
  [status |-> 0, error |-> Null, statuses |-> EmptyMap, hasDetails |-> FALSE,
   choices |-> <<>>]

\* The page as first rendered: every column enabled, nothing in flight.
ClientStart ==
  [enabledModels |-> [k \in ColumnKeys |-> TRUE],
   isLoading |-> FALSE,
   activeModels |-> <<>>,
   error |-> Null,
   reply |-> NoReply]

\* The reply of a judge: its content, the text handed to JSON.parse, and the
\* votedModelId got from it. No reply is followed while a turn is modelled.
ParserIdle == [stage |-> "idle", content |-> <<>>, text |-> <<>>, votedModelId |-> Null]

Init ==
  /\ apiKey \in BOOLEAN
  /\ body \in Bodies
  /\ pc = "start"
  /\ modelsToCall = <<>>
  /\ gen = [m \in RegistryIds |-> Idle]
  /\ genCalls = [m \in RegistryIds |-> 0]
  /\ modelStatuses = EmptyMap
  /\ choices = <<>>
  /\ userQuestion = Null
  /\ answers = <<>>
  /\ globalScores = <<>>
  /\ judge = [m \in RegistryIds |-> "idle"]
  /\ judgeCalls = [m \in RegistryIds |-> 0]
  /\ judgeMessages = [m \in RegistryIds |-> <<>>]
  /\ parser = ParserIdle
  /\ client = ClientStart
  /\ judgesResults = <<>>
  /\ response = NoResponse

\* ------------------------------------------------------------ POST
\* body.activeModels filtered to non-empty strings, as a set; Null when absent.
ActiveModelSet(b) ==
  {id \in Range(b.activeModels.ids) : id # ""}

\* Mutant of ModelsToCall: the ids of the selection are looked up one by one,
\* in the order of the selection.
ModelsToCallInSelectionOrder(b) ==
  IF b.activeModels.isArray
    THEN SelectSeq(b.activeModels.ids, LAMBDA id : id \in RegistryIds)
    ELSE allModels

\* Mutant of ModelsToCall: the selection of the body is not applied.
ModelsToCallAll(b) == allModels

ModelsToCall(b) ==
  IF b.activeModels.isArray
    THEN FilterSeq(allModels, ActiveModelSet(b))
    ELSE allModels

\* Mutant of Receive: the body is parsed and validated before the credential
\* is looked at.
ReceiveBodyFirst ==
  /\ pc = "start"
  /\ IF body.kind = "invalid"
       THEN /\ response' = ErrorResponse(400, "Invalid JSON body")
            /\ pc' = "done"
            /\ UNCHANGED <<modelsToCall, gen, genCalls>>
     ELSE IF body.kind = "nomessages"
       THEN /\ response' = ErrorResponse(400, "'messages' array is required")
            /\ pc' = "done"
            /\ UNCHANGED <<modelsToCall, gen, genCalls>>
     ELSE IF ~apiKey
       THEN /\ response' = ErrorResponse(500, "Missing OPENROUTER_API_KEY in environment")
            /\ pc' = "done"
            /\ UNCHANGED <<modelsToCall, gen, genCalls>>
     ELSE IF ModelsToCall(body) = <<>>
       THEN /\ modelsToCall' = <<>>
            /\ response' = ErrorResponse(400, "No models selected to call")
            /\ pc' = "done"
            /\ UNCHANGED <<gen, genCalls>>
     ELSE /\ modelsToCall' = ModelsToCall(body)
          /\ gen' = [m \in RegistryIds |->
                       IF m \in Range(ModelsToCall(body)) THEN Pending ELSE gen[m]]
          /\ genCalls' = [m \in RegistryIds |->
                            IF m \in Range(ModelsToCall(body))
                              THEN genCalls[m] + 1 ELSE genCalls[m]]
          /\ pc' = "collect"
          /\ UNCHANGED response
  /\ UNCHANGED <<apiKey, body, modelStatuses, choices, userQuestion, answers,
                 globalScores, judge, judgeCalls, judgeMessages, judgesResults,
                 parser, client>>

\* POST up to the first join: the credential and body checks, the selection,
\* and the dispatch of one fetch per selected model.
Receive ==
  /\ pc = "start"
  /\ IF ~apiKey
       THEN /\ response' = ErrorResponse(500, "Missing OPENROUTER_API_KEY in environment")
            /\ pc' = "done"
            /\ UNCHANGED <<modelsToCall, gen, genCalls>>
     ELSE IF body.kind = "invalid"
       THEN /\ response' = ErrorResponse(400, "Invalid JSON body")
            /\ pc' = "done"
            /\ UNCHANGED <<modelsToCall, gen, genCalls>>
     ELSE IF body.kind = "nomessages"
       THEN /\ response' = ErrorResponse(400, "'messages' array is required")
            /\ pc' = "done"
            /\ UNCHANGED <<modelsToCall, gen, genCalls>>
     ELSE IF ModelsToCall(body) = <<>>
       THEN /\ modelsToCall' = <<>>
            /\ response' = ErrorResponse(400, "No models selected to call")
            /\ pc' = "done"
            /\ UNCHANGED <<gen, genCalls>>
     ELSE /\ modelsToCall' = ModelsToCall(body)
          /\ gen' = [m \in RegistryIds |->
                       IF m \in Range(ModelsToCall(body)) THEN Pending ELSE gen[m]]
          /\ genCalls' = [m \in RegistryIds |->
                            IF m \in Range(ModelsToCall(body))
                              THEN genCalls[m] + 1 ELSE genCalls[m]]
          /\ pc' = "collect"
          /\ UNCHANGED response
  /\ UNCHANGED <<apiKey, body, modelStatuses, choices, userQuestion, answers,
                 globalScores, judge, judgeCalls, judgeMessages, judgesResults,
                 parser, client>>

\* A generation fetch resolves with a response.
GenResolves(m, r) ==
  /\ pc = "collect"
  /\ gen[m].st = "pending"
  /\ gen' = [gen EXCEPT ![m] = r]
  /\ UNCHANGED <<apiKey, body, pc, modelsToCall, genCalls, modelStatuses, choices,
                 userQuestion, answers, globalScores, judge, judgeCalls, judgeMessages,
                 judgesResults, response,
                 parser, client>>

\* A generation fetch rejects: the mapper has no try/catch, so Promise.all
\* rejects at once and the outer catch of POST answers 500.
GenRejects(m) ==
  /\ pc = "collect"
  /\ gen[m].st = "pending"
  /\ gen' = [gen EXCEPT ![m] = Rejected]
  /\ response' = ErrorResponse(500, "Failed to call OpenRouter API")
  /\ pc' = "done"
  /\ UNCHANGED <<apiKey, body, modelsToCall, genCalls, modelStatuses, choices,
                 userQuestion, answers, globalScores, judge, judgeCalls, judgeMessages,
                 judgesResults,
                 parser, client>>

\* The responses of the selected models, in modelsToCall order, that are ok.
Successful == FilterSeq(modelsToCall, {m \in RegistryIds : gen[m].ok})

\* Mutant of StatusOf: every response is recorded as ok.
StatusOfAlwaysOk(r) ==
  [ok |-> TRUE, status |-> r.status, body |-> Null]

\* One status per response: {ok, status} for a success; for a failure the
\* body text too, unless res.text() threw or was empty.
StatusOf(r) ==
  IF r.ok
    THEN [ok |-> TRUE, status |-> r.status, body |-> Null]
    ELSE [ok |-> FALSE, status |-> r.status,
          body |-> IF r.body = TextThrows \/ r.body = "" THEN Null ELSE r.body]

\* choices: one entry per successful response whose data.choices[0].message
\* is present, in modelsToCall order.
ChoicesOf(successful) ==
  LET withMessage == FilterSeq(successful, {m \in RegistryIds : gen[m].hasMessage})
  IN [i \in 1..Len(withMessage) |->
        [model |-> withMessage[i], message |-> [content |-> gen[withMessage[i]].content]]]

\* ------------------------------------------------------------ runCrossEvaluation
\* Mutant of MapChoices: index counts from one.
MapChoicesOneBased(cs) ==
  [i \in 1..Len(cs) |->
     [index |-> i,
      model |-> cs[i].model,
      content |-> IF cs[i].message.content.t = "string"
                    THEN cs[i].message.content
                    ELSE JSONstringify(cs[i].message.content)]]

\* choices.map: index is the position in choices; content that is not a
\* string is serialised.
MapChoices(cs) ==
  [i \in 1..Len(cs) |->
     [index |-> i - 1,
      model |-> cs[i].model,
      content |-> IF cs[i].message.content.t = "string"
                    THEN cs[i].message.content
                    ELSE JSONstringify(cs[i].message.content)]]

\* a.content.trim() on a content that JSON.stringify left undefined is a TypeError.
FilterThrows(cs) ==
  \E i \in 1..Len(cs) : MapChoices(cs)[i].content.t # "string"

\* Mutant of ValidAnswer: the content is not trimmed before the test.
ValidAnswerNoTrim(a) == a.content.t = "string" /\ Len(a.content.s) > 0

ValidAnswer(a) == a.content.t = "string" /\ Len(Trim(a.content.s)) > 0

Answers(cs) == SelectSeq(MapChoices(cs), ValidAnswer)

Models(as) == {as[i].model : i \in 1..Len(as)}

\* globalScores[a.model] = 0 for every answer.
InitScores(as) ==
  [i \in 1..Len(as) |-> [key |-> as[i].model, num |-> TRUE, val |-> 0]]

\* The answer a model gave (the models of the answers are distinct).
AnswerOf(as, m) == as[CHOOSE i \in 1..Len(as) : as[i].model = m]

\* Mutant of JudgeCandidates: the judge's own answer is not filtered out.
JudgeCandidatesAll(as, j) == as

\* answers.filter((a) => a.index !== judge.index)
JudgeCandidates(as, j) == SelectSeq(as, LAMBDA a : a.index # j.index)

\* The candidates of the judge's user message, each with its ordinal
\* (idx + 1), its model id and its text.
JudgeUserMessage(as, j) ==
  LET candidates == JudgeCandidates(as, j)
  IN [idx \in 1..Len(candidates) |->
        [ordinal |-> idx,
         model |-> candidates[idx].model,
         content |-> candidates[idx].content]]

The200(cs, evaluation, statuses) ==
  [NoResponse EXCEPT !.status = 200, !.choices = cs,
                     !.evaluation = evaluation, !.modelStatuses = statuses]

\* runCrossEvaluation(choices, baseHeaders, userQuestion) up to its join: the
\* precondition, the valid answers, the zeroed tally and the dispatch of one
\* judge fetch per answer. A null return is answered by POST with a 200; a
\* throw lands in the outer catch of POST.
StartEvaluation(cs, question, statuses) ==
  IF question = Null \/ question = "" \/ Len(cs) < 2
    THEN /\ response' = The200(cs, NullEvaluation, statuses)
         /\ pc' = "done"
         /\ UNCHANGED <<answers, globalScores, judge, judgeCalls, judgeMessages>>
  ELSE IF FilterThrows(cs)
    THEN /\ response' = ErrorResponse(500, "Failed to call OpenRouter API")
         /\ pc' = "done"
         /\ UNCHANGED <<answers, globalScores, judge, judgeCalls, judgeMessages>>
  ELSE IF Len(Answers(cs)) < 2
    THEN /\ answers' = Answers(cs)
         /\ response' = The200(cs, NullEvaluation, statuses)
         /\ pc' = "done"
         /\ UNCHANGED <<globalScores, judge, judgeCalls, judgeMessages>>
  ELSE /\ answers' = Answers(cs)
       /\ globalScores' = InitScores(Answers(cs))
       /\ judge' = [m \in RegistryIds |->
                      IF m \in Models(Answers(cs)) THEN "pending" ELSE judge[m]]
       /\ judgeCalls' = [m \in RegistryIds |->
                           IF m \in Models(Answers(cs))
                             THEN judgeCalls[m] + 1 ELSE judgeCalls[m]]
       /\ judgeMessages' = [m \in RegistryIds |->
                              IF m \in Models(Answers(cs))
                                THEN JudgeUserMessage(Answers(cs), AnswerOf(Answers(cs), m))
                                ELSE judgeMessages[m]]
       /\ pc' = "judging"
       /\ UNCHANGED response

\* POST from the join of the generation calls to the join of the judges: the
\* status map, the 502 when no call succeeded, the loop that builds choices
\* (res.json() of a body that is not JSON throws into the outer catch), the
\* last user question, and the call of runCrossEvaluation.
Collected ==
  /\ pc = "collect"
  /\ \A m \in Range(modelsToCall) : gen[m].st = "resolved"
  /\ modelStatuses' = [m \in Range(modelsToCall) |-> StatusOf(gen[m])]
  /\ IF Successful = <<>>
       THEN /\ response' = [ErrorResponse(502, "OpenRouter API error")
                              EXCEPT !.details = modelStatuses']
            /\ pc' = "done"
            /\ UNCHANGED <<choices, userQuestion, answers, globalScores, judge,
                           judgeCalls, judgeMessages>>
     ELSE IF \E m \in Range(Successful) : ~gen[m].json
       THEN /\ response' = ErrorResponse(500, "Failed to call OpenRouter API")
            /\ pc' = "done"
            /\ UNCHANGED <<choices, userQuestion, answers, globalScores, judge,
                           judgeCalls, judgeMessages>>
     ELSE /\ choices' = ChoicesOf(Successful)
          /\ userQuestion' = body.question
          /\ StartEvaluation(choices', userQuestion', modelStatuses')
  /\ UNCHANGED <<apiKey, body, modelsToCall, gen, genCalls, judgesResults,
                 parser, client>>

\* An own property of globalScores.
Own(scores, id) == \E i \in 1..Len(scores) : scores[i].key = id
\* globalScores[id] != null: an own property, or one inherited from Object.prototype.
HasScore(scores, id) == Own(scores, id) \/ id \in ProtoKeys

\* Mutant of AddOne: the score is set to 1 (= 1 for += 1).
AddOneSetsOne(scores, id) ==
  IF Own(scores, id)
    THEN [i \in 1..Len(scores) |->
            IF scores[i].key = id
              THEN [scores[i] EXCEPT !.val = 1] ELSE scores[i]]
    ELSE Append(scores, [key |-> id, num |-> FALSE, val |-> 1])

\* Mutant of AddOne: the incremented property is deleted and set again, so it
\* moves to the end of the entries.
AddOneReinserted(scores, id) ==
  IF Own(scores, id)
    THEN LET old == scores[CHOOSE i \in 1..Len(scores) : scores[i].key = id]
         IN Append(SelectSeq(scores, LAMBDA e : e.key # id),
                   [old EXCEPT !.val = @ + 1])
    ELSE Append(scores, [key |-> id, num |-> FALSE, val |-> 1])

\* globalScores[id] += 1. A number is incremented. An inherited function is
\* read, "1" is appended to its text, and the string is stored as a new own
\* property (num = FALSE, val = how many "1" were appended).
AddOne(scores, id) ==
  IF Own(scores, id)
    THEN [i \in 1..Len(scores) |->
            IF scores[i].key = id
              THEN [scores[i] EXCEPT !.val = @ + 1] ELSE scores[i]]
    ELSE Append(scores, [key |-> id, num |-> FALSE, val |-> 1])

\* Mutant of Tally: only a score that is still 0 is incremented.
TallyOnce(scores, votedModelId) ==
  IF /\ votedModelId # Null /\ votedModelId # ""
     /\ Own(scores, votedModelId)
     /\ scores[CHOOSE i \in 1..Len(scores) : scores[i].key = votedModelId].val = 0
    THEN [i \in 1..Len(scores) |->
            IF scores[i].key = votedModelId
              THEN [scores[i] EXCEPT !.val = @ + 1] ELSE scores[i]]
    ELSE scores

\* if (votedModelId && globalScores[votedModelId] != null) globalScores[votedModelId] += 1
Tally(scores, votedModelId) ==
  IF votedModelId # Null /\ votedModelId # "" /\ HasScore(scores, votedModelId)
    THEN AddOne(scores, votedModelId)
    ELSE scores

Vote(judgeModelId, votedModelId, reasoning) ==
  [judgeModelId |-> judgeModelId, votedModelId |-> votedModelId, reasoning |-> reasoning]

\* A judge ends with {judgeModelId, votedModelId: null}.
PushNull(m) ==
  /\ judgesResults' = Append(judgesResults, Vote(m, Null, Null))
  /\ judge' = [judge EXCEPT ![m] = "done"]
  /\ UNCHANGED <<apiKey, body, pc, modelsToCall, gen, genCalls, modelStatuses,
                 choices, userQuestion, answers, globalScores, judgeCalls, judgeMessages, response,
                 parser, client>>

\* Mutant of JudgeHttpFailure: the early return forgets to record a vote.
JudgeHttpFailureNoVote(m) ==
  /\ pc = "judging" /\ judge[m] = "pending"
  /\ judge' = [judge EXCEPT ![m] = "done"]
  /\ UNCHANGED <<apiKey, body, pc, modelsToCall, gen, genCalls, modelStatuses,
                 choices, userQuestion, answers, globalScores, judgeCalls, judgeMessages,
                 judgesResults, response,
                 parser, client>>

\* The judge's fetch resolves with a non-success status.
JudgeHttpFailure(m) ==
  /\ pc = "judging" /\ judge[m] = "pending"
  /\ PushNull(m)

\* Mutant of JudgeFetchThrows: the catch issues the judge's request again, once.
JudgeFetchThrowsRetry(m) ==
  /\ pc = "judging" /\ judge[m] = "pending"
  /\ judgeCalls[m] < 2
  /\ judgeCalls' = [judgeCalls EXCEPT ![m] = @ + 1]
  /\ UNCHANGED <<apiKey, body, pc, modelsToCall, gen, genCalls, modelStatuses,
                 choices, userQuestion, answers, globalScores, judge, judgeMessages,
                 judgesResults, response,
                 parser, client>>

\* The judge's fetch rejects: the catch of the judge records a null vote.
JudgeFetchThrows(m) ==
  /\ pc = "judging" /\ judge[m] = "pending"
  /\ PushNull(m)

\* The judge's fetch resolves ok; the judge awaits res.json().
JudgeFetchOk(m) ==
  /\ pc = "judging" /\ judge[m] = "pending"
  /\ judge' = [judge EXCEPT ![m] = "json"]
  /\ UNCHANGED <<apiKey, body, pc, modelsToCall, gen, genCalls, modelStatuses,
                 choices, userQuestion, answers, globalScores, judgeCalls, judgeMessages,
                 judgesResults, response,
                 parser, client>>

\* res.json() rejects.
JudgeJsonThrows(m) ==
  /\ pc = "judging" /\ judge[m] = "json"
  /\ PushNull(m)

\* json.choices[0].message.content is not a string.
JudgeContentNotString(m) ==
  /\ pc = "judging" /\ judge[m] = "json"
  /\ PushNull(m)

\* Mutant of JudgeParseFails: the SyntaxError is not caught by the judge and
\* reaches the outer catch of POST.
JudgeParseFailsRethrows(m) ==
  /\ pc = "judging" /\ judge[m] = "json"
  /\ judge' = [judge EXCEPT ![m] = "done"]
  /\ response' = ErrorResponse(500, "Failed to call OpenRouter API")
  /\ pc' = "done"
  /\ UNCHANGED <<apiKey, body, modelsToCall, gen, genCalls, modelStatuses,
                 choices, userQuestion, answers, globalScores, judgeCalls, judgeMessages,
                 judgesResults,
                 parser, client>>

\* JSON.parse(text) throws.
JudgeParseFails(m) ==
  /\ pc = "judging" /\ judge[m] = "json"
  /\ PushNull(m)

\* The ids a judge's JSON may name: any answer's model (its own included, the
\* code does not restrict it), a dispatched model that gave no answer, an
\* unknown id, an inherited property name.
VoteIds == Range(modelsToCall) \cup Models(answers) \cup {UnknownId} \cup ProtoKeys
Reasonings == {"ok"}

\* Mutant of JudgeParsed: the judge adds its vote to the scores as they were
\* when it was started, and stores that over the votes counted meanwhile.
JudgeParsedStale(m, id, reasoning) ==
  /\ pc = "judging" /\ judge[m] = "json"
  /\ globalScores' = Tally(InitScores(answers), id)
  /\ judgesResults' = Append(judgesResults, Vote(m, id, reasoning))
  /\ judge' = [judge EXCEPT ![m] = "done"]
  /\ UNCHANGED <<apiKey, body, pc, modelsToCall, gen, genCalls, modelStatuses,
                 choices, userQuestion, answers, judgeCalls, judgeMessages, response,
                 parser, client>>

\* The text parses to a value: winner_model_id is a string (id) or not
\* (Null), and reasoning is a string or not.
JudgeParsed(m, id, reasoning) ==
  /\ pc = "judging" /\ judge[m] = "json"
  /\ globalScores' = Tally(globalScores, id)
  /\ judgesResults' = Append(judgesResults, Vote(m, id, reasoning))
  /\ judge' = [judge EXCEPT ![m] = "done"]
  /\ UNCHANGED <<apiKey, body, pc, modelsToCall, gen, genCalls, modelStatuses,
                 choices, userQuestion, answers, judgeCalls, judgeMessages, response,
                 parser, client>>

\* The parsed value has no string winner_model_id (and here no reasoning).
JudgeNoWinnerId(m) == JudgeParsed(m, Null, Null)

\* The parsed value names a winner and gives a reasoning.
JudgeVotes(m) == \E id \in VoteIds, r \in Reasonings : JudgeParsed(m, id, r)

\* Mutant of PickWinner: >= for >, so the last maximum wins.
RECURSIVE PickWinnerLastMax(_, _, _)
PickWinnerLastMax(entries, bestScore, winnerModelId) ==
  IF entries = <<>> THEN winnerModelId
  ELSE IF Head(entries).num /\ Head(entries).val >= bestScore
    THEN PickWinnerLastMax(Tail(entries), Head(entries).val, Head(entries).key)
    ELSE PickWinnerLastMax(Tail(entries), bestScore, winnerModelId)

\* The loop over Object.entries(globalScores): strict > against bestScore,
\* which starts at -1. A string that is no number compares false.
RECURSIVE PickWinner(_, _, _)
PickWinner(entries, bestScore, winnerModelId) ==
  IF entries = <<>> THEN winnerModelId
  ELSE IF Head(entries).num /\ Head(entries).val > bestScore
    THEN PickWinner(Tail(entries), Head(entries).val, Head(entries).key)
    ELSE PickWinner(Tail(entries), bestScore, winnerModelId)

\* Mutant of WinnerModelId: bestScore starts at 0.
WinnerModelIdFromZero(scores) == PickWinner(scores, 0, Null)

\* let winnerModelId = null; let bestScore = -1; and the loop.
WinnerModelId(scores) == PickWinner(scores, 0 - 1, Null)

\* Mutant of WinnerIndex: findIndex for find, the position among the answers.
WinnerIndexInAnswers(as, winnerModelId) ==
  IF winnerModelId # Null /\ \E i \in 1..Len(as) : as[i].model = winnerModelId
    THEN (CHOOSE i \in 1..Len(as) :
              /\ as[i].model = winnerModelId
              /\ \A j \in 1..(i - 1) : as[j].model # winnerModelId) - 1
    ELSE NullIndex

\* answers.find((a) => a.model === winnerModelId)?.index ?? null
WinnerIndex(as, winnerModelId) ==
  IF winnerModelId # Null /\ \E i \in 1..Len(as) : as[i].model = winnerModelId
    THEN as[CHOOSE i \in 1..Len(as) :
              /\ as[i].model = winnerModelId
              /\ \A j \in 1..(i - 1) : as[j].model # winnerModelId].index
    ELSE NullIndex

\* The join of the judges, the winner, and the 200 of POST.
FinishEvaluation ==
  /\ pc = "judging"
  /\ \A m \in Models(answers) : judge[m] = "done"
  /\ response' = The200(choices,
       [isNull |-> FALSE,
        scores |-> globalScores,
        winnerModelId |-> WinnerModelId(globalScores),
        winnerIndex |-> WinnerIndex(answers, WinnerModelId(globalScores)),
        judges |-> judgesResults], modelStatuses)
  /\ pc' = "done"
  /\ UNCHANGED <<apiKey, body, modelsToCall, gen, genCalls, modelStatuses, choices,
                 userQuestion, answers, globalScores, judge, judgeCalls, judgeMessages,
                 judgesResults,
                 parser, client>>

Next ==
  \/ Receive
  \/ \E m \in RegistryIds, r \in GenResponses : GenResolves(m, r)
  \/ \E m \in RegistryIds : GenRejects(m)
  \/ Collected
  \/ \E m \in RegistryIds : JudgeHttpFailure(m)
  \/ \E m \in RegistryIds : JudgeFetchThrows(m)
  \/ \E m \in RegistryIds : JudgeFetchOk(m)
  \/ \E m \in RegistryIds : JudgeJsonThrows(m)
  \/ \E m \in RegistryIds : JudgeContentNotString(m)
  \/ \E m \in RegistryIds : JudgeParseFails(m)
  \/ \E m \in RegistryIds : JudgeNoWinnerId(m)
  \/ \E m \in RegistryIds : JudgeVotes(m)
  \/ FinishEvaluation

Spec == Init /\ [][Next]_vars

\* ------------------------------------------------------------ the judge's text
\* A text is a sequence of characters. Two members of an object are each kept
\* as one character: WinnerX for "winner_model_id":"X","reasoning":"ok" and
\* OnlyReasoning for "reasoning":"ok".
WinnerX == "<winner_model_id:X,reasoning:ok>"
OnlyReasoning == "<reasoning:ok>"
VotedX == "X"
\* The backtick character, and the three that open a fenced block.
Backtick == "<backtick>"
Fence == <<Backtick, Backtick, Backtick>>

\* String.prototype.startsWith
StartsWith(s, p) == Len(s) >= Len(p) /\ SubSeq(s, 1, Len(p)) = p

\* String.prototype.indexOf and lastIndexOf of one character: positions count
\* from 0, and -1 says the character is absent.
RECURSIVE IndexOfFrom(_, _, _)
IndexOfFrom(s, c, i) ==
  IF i > Len(s) THEN 0 - 1
  ELSE IF s[i] = c THEN i - 1
  ELSE IndexOfFrom(s, c, i + 1)
IndexOf(s, c) == IndexOfFrom(s, c, 1)

RECURSIVE LastIndexOfFrom(_, _, _)
LastIndexOfFrom(s, c, i) ==
  IF i < 1 THEN 0 - 1
  ELSE IF s[i] = c THEN i - 1
  ELSE LastIndexOfFrom(s, c, i - 1)
LastIndexOf(s, c) == LastIndexOfFrom(s, c, Len(s))

\* String.prototype.slice(start, end) for 0 <= start and end <= length.
Slice(s, start, end) == IF start >= end THEN <<>> ELSE SubSeq(s, start + 1, end)

\* Mutant of StripFence: the slice ends before the last brace.
StripFenceDropsBrace(content) ==
  LET text == Trim(content)
      firstBrace == IndexOf(text, "{")
      lastBrace == LastIndexOf(text, "}")
  IN IF StartsWith(text, Fence) /\ firstBrace # 0 - 1 /\ lastBrace # 0 - 1
       THEN Slice(text, firstBrace, lastBrace)
       ELSE text

\* let text = content.trim(); and, when text starts with the fence, the slice
\* from the first "{" to the last "}" if both are there.
StripFence(content) ==
  LET text == Trim(content)
      firstBrace == IndexOf(text, "{")
      lastBrace == LastIndexOf(text, "}")
  IN IF StartsWith(text, Fence) /\ firstBrace # 0 - 1 /\ lastBrace # 0 - 1
       THEN Slice(text, firstBrace, lastBrace + 1)
       ELSE text

\* JSON.parse on these texts: white space around the tokens is skipped; an
\* object of one known member or of none is a value; anything else throws.
WithoutSpace(s) == SelectSeq(s, LAMBDA c : ~IsSpace(c))
JSONparse(text) ==
  LET t == WithoutSpace(text)
  IN IF t = <<"{", WinnerX, "}">>
       THEN [throws |-> FALSE, winner_model_id |-> VotedX]
     ELSE IF t = <<"{", OnlyReasoning, "}">> \/ t = <<"{", "}">>
       THEN [throws |-> FALSE, winner_model_id |-> Null]
     ELSE [throws |-> TRUE, winner_model_id |-> Null]

\* votedModelId: parsed.winner_model_id when it is a string, else null; null
\* too in the vote pushed when JSON.parse throws.
VotedModelId(text) == JSONparse(text).winner_model_id

\* The replies followed: optional white space, an opening that is a fence, a
\* fence with the tag json, two backticks or nothing, an optional newline, a
\* body of up to MaxBody characters, and an optional closing fence.
MaxBody == 3
BodyChars == {"{", "}", WinnerX, OnlyReasoning}
Openings == {<<>>, Fence, Fence \o <<"j", "s", "o", "n">>, <<Backtick, Backtick>>}
JudgeContents ==
  {lead \o open \o nl \o b \o close :
     lead \in {<<>>, <<" ">>},
     open \in Openings,
     nl \in {<<>>, <<"\n">>},
     b \in UNION {[1..n -> BodyChars] : n \in 0..MaxBody},
     close \in {<<>>, <<"\n">> \o Fence}}

\* One reply is followed from its content to its vote; the variables of the
\* turn stay as they are before the turn starts.
FenceInit ==
  /\ apiKey = TRUE
  /\ body = [kind |-> "ok", question |-> "What is 2+2?",
             activeModels |-> [isArray |-> FALSE, ids |-> <<>>]]
  /\ pc = "start"
  /\ modelsToCall = <<>>
  /\ gen = [m \in RegistryIds |-> Idle]
  /\ genCalls = [m \in RegistryIds |-> 0]
  /\ modelStatuses = EmptyMap
  /\ choices = <<>>
  /\ userQuestion = Null
  /\ answers = <<>>
  /\ globalScores = <<>>
  /\ judge = [m \in RegistryIds |-> "idle"]
  /\ judgeCalls = [m \in RegistryIds |-> 0]
  /\ judgeMessages = [m \in RegistryIds |-> <<>>]
  /\ judgesResults = <<>>
  /\ response = NoResponse
  /\ client = ClientStart
  /\ parser \in {[ParserIdle EXCEPT !.stage = "content", !.content = c] :
                   c \in JudgeContents}

\* The content is trimmed and stripped of its fence.
ParserStrip ==
  /\ parser.stage = "content"
  /\ parser' = [parser EXCEPT !.stage = "text", !.text = StripFence(parser.content)]
  /\ UNCHANGED <<apiKey, body, pc, modelsToCall, gen, genCalls, modelStatuses,
                 choices, userQuestion, answers, globalScores, judge, judgeCalls,
                 judgeMessages, judgesResults, response, client>>

\* The text is parsed and the vote read from the value.
ParserParse ==
  /\ parser.stage = "text"
  /\ parser' = [parser EXCEPT !.stage = "parsed",
                              !.votedModelId = VotedModelId(parser.text)]
  /\ UNCHANGED <<apiKey, body, pc, modelsToCall, gen, genCalls, modelStatuses,
                 choices, userQuestion, answers, globalScores, judge, judgeCalls,
                 judgeMessages, judgesResults, response, client>>

FenceNext ==
  \/ ParserStrip
  \/ ParserParse

FenceSpec == FenceInit /\ [][FenceNext]_vars

\* ------------------------------------------------------------ the page (client)
\* MODEL_ID_TO_KEY[modelId]: the key of the column of a model, else undefined.
MODEL_ID_TO_KEY(modelId) ==
  IF \E i \in 1..Len(MODEL_COLUMNS) : MODEL_COLUMNS[i].modelId = modelId
    THEN MODEL_COLUMNS[CHOOSE i \in 1..Len(MODEL_COLUMNS) :
                         MODEL_COLUMNS[i].modelId = modelId].key
    ELSE Null

\* The bodies a failed model's status carries, and the words of
\* looksLikeLimit that each contains once lowered.
QuotaBody == "Daily quota exceeded"
RateBody == "Rate limit exceeded"
PlainBody == "Internal error"
LimitWords == {"quota", "rate limit", "limit", "insufficient", "billing", "payment"}
WordsIn(bodyText) ==
  IF bodyText = QuotaBody THEN {"quota", "daily", "exceeded"}
  ELSE IF bodyText = RateBody THEN {"rate limit", "rate", "limit", "exceeded"}
  ELSE IF bodyText = PlainBody THEN {"internal", "error"}
  ELSE {}

\* The entries of a status map as the route writes them.
StatusEntries ==
  {[ok |-> TRUE, status |-> 200, body |-> Null],
   [ok |-> FALSE, status |-> 402, body |-> Null],
   [ok |-> FALSE, status |-> 429, body |-> RateBody],
   [ok |-> FALSE, status |-> 500, body |-> QuotaBody],
   [ok |-> FALSE, status |-> 500, body |-> PlainBody]}

\* ok === false || status >= 400, and then looksLikeLimit.
LooksLikeLimit(info) ==
  /\ (info.ok = FALSE \/ info.status >= 400)
  /\ \/ info.status = 402
     \/ info.status = 429
     \/ WordsIn(IF info.body = Null THEN "" ELSE info.body) \cap LimitWords # {}

\* The keys autoDisableFromStatuses collects in toDisable.
ToDisable(statuses) ==
  {MODEL_ID_TO_KEY(m) : m \in {x \in DOMAIN statuses : LooksLikeLimit(statuses[x])}}
    \ {Null}

\* setEnabledModels(prev => next) with next[key] = false for every key of toDisable.
AutoDisableFromStatuses(prev, statuses) ==
  [k \in ColumnKeys |-> IF k \in ToDisable(statuses) THEN FALSE ELSE prev[k]]

\* MODEL_COLUMNS.filter(enabledModels[column.key] !== false).map(modelId)
ActiveModelIds(enabledModels) ==
  LET on == SelectSeq(MODEL_COLUMNS, LAMBDA column : enabledModels[column.key])
  IN [i \in 1..Len(on) |-> on[i].modelId]

\* What the route answers to a request for the models of sel. A 200 has a
\* status for every model, one at least ok, and the choices of the ok models
\* that had a message (here all of them or none). A 502 has a failed status
\* for every model. A 500 has no details.
Replies200(sel) ==
  {[NoReply EXCEPT !.status = 200, !.statuses = st, !.choices = cs] :
     st \in {f \in [Range(sel) -> StatusEntries] : \E m \in Range(sel) : f[m].ok},
     cs \in {<<>>, sel}}
Replies502(sel) ==
  {[NoReply EXCEPT !.status = 502, !.error = "OpenRouter API error",
                   !.statuses = st, !.hasDetails = TRUE] :
     st \in {f \in [Range(sel) -> StatusEntries] : \A m \in Range(sel) : ~f[m].ok}}
Replies500 ==
  {[NoReply EXCEPT !.status = 500, !.error = "Failed to call OpenRouter API"]}

\* The choices of a 200 are those of the models recorded ok.
ChoicesOfReply(r) ==
  IF r.choices = <<>> THEN <<>>
  ELSE SelectSeq(r.choices, LAMBDA m : r.statuses[m].ok)

Inputs == {<<>>, <<" ">>, <<"h", "i">>}

\* handleSubmit up to the fetch.
HandleSubmit(input) ==
  /\ IF Trim(input) = <<>> \/ client.isLoading
       THEN client' = [client EXCEPT !.error = Null]
     ELSE IF ActiveModelIds(client.enabledModels) = <<>>
       THEN client' = [client EXCEPT !.error = "Please enable at least one model."]
     ELSE client' = [client EXCEPT !.error = Null,
                                   !.isLoading = TRUE,
                                   !.activeModels = ActiveModelIds(client.enabledModels),
                                   !.reply = NoReply]
  /\ UNCHANGED <<apiKey, body, pc, modelsToCall, gen, genCalls, modelStatuses,
                 choices, userQuestion, answers, globalScores, judge, judgeCalls,
                 judgeMessages, judgesResults, response, parser>>

\* The checkbox of a column.
OnChange(key, checked) ==
  /\ client' = [client EXCEPT !.enabledModels[key] = checked]
  /\ UNCHANGED <<apiKey, body, pc, modelsToCall, gen, genCalls, modelStatuses,
                 choices, userQuestion, answers, globalScores, judge, judgeCalls,
                 judgeMessages, judgesResults, response, parser>>

\* The response is not ok: the error is shown (its detail lines are not
\* kept here) and the details, if any, go to autoDisableFromStatuses.
ResponseNotOk(r) ==
  /\ client.isLoading
  /\ r \in Replies502(client.activeModels) \cup Replies500
  /\ client' = [client EXCEPT
       !.enabledModels = IF r.hasDetails
                           THEN AutoDisableFromStatuses(@, r.statuses) ELSE @,
       !.error = r.error,
       !.isLoading = FALSE,
       !.activeModels = <<>>,
       !.reply = r]
  /\ UNCHANGED <<apiKey, body, pc, modelsToCall, gen, genCalls, modelStatuses,
                 choices, userQuestion, answers, globalScores, judge, judgeCalls,
                 judgeMessages, judgesResults, response, parser>>

\* The response is ok: without choices the handler throws before it looks
\* at modelStatuses; with choices modelStatuses go to autoDisableFromStatuses.
ResponseOk(r) ==
  /\ client.isLoading
  /\ r \in Replies200(client.activeModels)
  /\ IF ChoicesOfReply(r) = <<>>
       THEN client' = [client EXCEPT
              !.error = "No messages returned from models",
              !.isLoading = FALSE,
              !.activeModels = <<>>,
              !.reply = [r EXCEPT !.choices = <<>>]]
     ELSE client' = [client EXCEPT
              !.enabledModels = AutoDisableFromStatuses(@, r.statuses),
              !.isLoading = FALSE,
              !.activeModels = <<>>,
              !.reply = [r EXCEPT !.choices = ChoicesOfReply(r)]]
  /\ UNCHANGED <<apiKey, body, pc, modelsToCall, gen, genCalls, modelStatuses,
                 choices, userQuestion, answers, globalScores, judge, judgeCalls,
                 judgeMessages, judgesResults, response, parser>>

\* fetch rejects: the catch shows the error.
FetchRejects ==
  /\ client.isLoading
  /\ client' = [client EXCEPT !.error = "Failed to fetch",
                              !.isLoading = FALSE,
                              !.activeModels = <<>>]
  /\ UNCHANGED <<apiKey, body, pc, modelsToCall, gen, genCalls, modelStatuses,
                 choices, userQuestion, answers, globalScores, judge, judgeCalls,
                 judgeMessages, judgesResults, response, parser>>

\* The page; the route is seen through its responses only.
ClientInit ==
  /\ apiKey = TRUE
  /\ body = [kind |-> "ok", question |-> "What is 2+2?",
             activeModels |-> [isArray |-> FALSE, ids |-> <<>>]]
  /\ pc = "start"
  /\ modelsToCall = <<>>
  /\ gen = [m \in RegistryIds |-> Idle]
  /\ genCalls = [m \in RegistryIds |-> 0]
  /\ modelStatuses = EmptyMap
  /\ choices = <<>>
  /\ userQuestion = Null
  /\ answers = <<>>
  /\ globalScores = <<>>
  /\ judge = [m \in RegistryIds |-> "idle"]
  /\ judgeCalls = [m \in RegistryIds |-> 0]
  /\ judgeMessages = [m \in RegistryIds |-> <<>>]
  /\ judgesResults = <<>>
  /\ response = NoResponse
  /\ parser = ParserIdle
  /\ client = ClientStart

ClientNext ==
  \/ \E input \in Inputs : HandleSubmit(input)
  \/ \E key \in ColumnKeys, checked \in BOOLEAN : OnChange(key, checked)
  \/ \E r \in Replies502(client.activeModels) \cup Replies500 : ResponseNotOk(r)
  \/ \E r \in Replies200(client.activeModels) : ResponseOk(r)
  \/ FetchRejects

ClientSpec == ClientInit /\ [][ClientNext]_vars

\* ------------------------------------------------------------ properties
\* evaluate returned a result and POST answered with it.
Returned == pc = "done" /\ response.status = 200 /\ ~response.evaluation.isNull

\* POST reached the call of runCrossEvaluation.
EvaluateCalled ==
  /\ pc \in {"judging", "done"}
  /\ modelsToCall # <<>>
  /\ \A m \in Range(modelsToCall) : gen[m].st = "resolved"
  /\ Successful # <<>>
  /\ \A m \in Range(Successful) : gen[m].json

Keys(scores) == {scores[i].key : i \in 1..Len(scores)}
AllNumbers(scores) == \A i \in 1..Len(scores) : scores[i].num
ScoreOf(scores, k) == scores[CHOOSE i \in 1..Len(scores) : scores[i].key = k].val

\* The sum of the values of the properties whose key is in K.
RECURSIVE SumOver(_, _)
SumOver(scores, K) ==
  IF scores = <<>> THEN 0
  ELSE (IF Head(scores).key \in K THEN Head(scores).val ELSE 0) + SumOver(Tail(scores), K)

\* How many votes name an id of S.
VotesIn(judges, S) ==
  Cardinality({i \in 1..Len(judges) : judges[i].votedModelId \in S})

\* How many votes for k were cast by a judge other than k.
VotesByOthers(judges, k) ==
  Cardinality({i \in 1..Len(judges) :
                 judges[i].votedModelId = k /\ judges[i].judgeModelId # k})

\* A choice whose text is a string that is not blank.
NonBlank(c) ==
  c.message.content.t = "string" /\ Len(Trim(c.message.content.s)) > 0
NonBlankCount(cs) == Cardinality({i \in 1..Len(cs) : NonBlank(cs[i])})

QuestionGiven == userQuestion # Null /\ userQuestion # ""

\* C1: in every returned result every value of scores is a count, their sum
\* is at most the number of judges, and it equals the number of judges whose
\* recorded vote names a key of scores.
C1_SumIsVotesForKeys ==
  Returned =>
    LET ev == response.evaluation
    IN /\ AllNumbers(ev.scores)
       /\ SumOver(ev.scores, Keys(ev.scores)) <= Len(ev.judges)
       /\ SumOver(ev.scores, Keys(ev.scores)) = VotesIn(ev.judges, Keys(ev.scores))

\* C2 (as claimed): in every returned result whose values are all numbers,
\* the sum of the values of scores equals the number of votes whose
\* votedModelId is not null.
C2_SumIsNonNullVotes ==
  (Returned /\ AllNumbers(response.evaluation.scores)) =>
    LET ev == response.evaluation
    IN SumOver(ev.scores, Keys(ev.scores)) =
         Cardinality({i \in 1..Len(ev.judges) : ev.judges[i].votedModelId # Null})

\* C2 (amended): in every returned result the sum of the candidates' scores
\* equals the number of votes whose votedModelId is a candidate's model id,
\* and is at most the number of non-null votes.
C2_SumIsVotesForCandidates ==
  Returned =>
    LET ev == response.evaluation
    IN /\ SumOver(ev.scores, Models(answers)) = VotesIn(ev.judges, Models(answers))
       /\ SumOver(ev.scores, Models(answers)) <=
            Cardinality({i \in 1..Len(ev.judges) : ev.judges[i].votedModelId # Null})

\* C2 witness: a result in which one judge voted for a candidate and another
\* named an id that is no candidate.
C2_Witness ==
  /\ Returned
  /\ VotesIn(response.evaluation.judges, Models(answers)) > 0
  /\ VotesIn(response.evaluation.judges, {UnknownId}) > 0

\* C3: in every returned result the score of each candidate X counts only
\* the votes cast for X by judges other than X (a judge naming itself adds
\* nothing).
C3_SelfVoteNotCounted ==
  Returned =>
    \A i \in 1..Len(answers) :
      ScoreOf(response.evaluation.scores, answers[i].model) =
        VotesByOthers(response.evaluation.judges, answers[i].model)

\* The judgeModelId of every vote, in order.
JudgeIds(judges) == [i \in 1..Len(judges) |-> judges[i].judgeModelId]
NoDuplicates(seq) == \A i, j \in 1..Len(seq) : seq[i] = seq[j] => i = j

\* C4: at every moment the recorded votes are exactly one per judge that has
\* finished, and a returned result holds exactly one vote per valid answer.
C4_OneVotePerJudge ==
  /\ NoDuplicates(JudgeIds(judgesResults))
  /\ Range(JudgeIds(judgesResults)) = {m \in RegistryIds : judge[m] = "done"}
  /\ Returned =>
       /\ Len(response.evaluation.judges) = Len(answers)
       /\ NoDuplicates(JudgeIds(response.evaluation.judges))
       /\ Range(JudgeIds(response.evaluation.judges)) = Models(answers)

\* C4 witness: a result of three judges, some with a null vote and some with
\* a vote, recorded in an order that is not the dispatch order.
C4_Witness ==
  /\ Returned
  /\ Len(answers) = 3
  /\ \E i, j \in 1..3 :
       /\ response.evaluation.judges[i].votedModelId = Null
       /\ response.evaluation.judges[j].votedModelId # Null
  /\ JudgeIds(response.evaluation.judges) # [i \in 1..3 |-> answers[i].model]

\* A selected model whose call failed (rejected, or a non-success status),
\* and one whose call gave a usable text.
CallFailed(m) == gen[m].st = "rejected" \/ (gen[m].st = "resolved" /\ ~gen[m].ok)
CallUsable(m) ==
  /\ gen[m].st = "resolved" /\ gen[m].ok /\ gen[m].json /\ gen[m].hasMessage
  /\ gen[m].content.t = "string" /\ Len(Trim(gen[m].content.s)) > 0

\* C5: when the turn has ended and every selected model's call either failed
\* or gave a usable text, at least one of them usable, the turn ended with a
\* 200 whose statuses record every failed model as not ok.
C5_FailureDoesNotAbortTurn ==
  (/\ pc = "done"
   /\ \A m \in Range(modelsToCall) : CallFailed(m) \/ CallUsable(m)
   /\ \E m \in Range(modelsToCall) : CallUsable(m))
    => /\ response.status = 200
       /\ \A m \in Range(modelsToCall) :
            CallFailed(m) =>
              /\ m \in DOMAIN response.modelStatuses
              /\ ~response.modelStatuses[m].ok

\* C6: in every returned result winnerModelId is not null and is a key of
\* scores (the model of a valid answer).
C6_WinnerIsAKey ==
  Returned =>
    /\ response.evaluation.winnerModelId # Null
    /\ response.evaluation.winnerModelId \in Keys(response.evaluation.scores)
    /\ response.evaluation.winnerModelId \in Models(answers)

\* C6 witness: a result in which no candidate got a vote.
C6_Witness ==
  /\ Returned
  /\ \A i \in 1..Len(answers) : ScoreOf(response.evaluation.scores, answers[i].model) = 0

\* The position of model k among the answers.
AnswerPos(k) == CHOOSE i \in 1..Len(answers) : answers[i].model = k

\* C7: in every returned result no numeric score exceeds the winner's, and
\* every answer before the winner in candidate order has a strictly smaller
\* score.
C7_WinnerIsFirstMaximum ==
  Returned =>
    LET ev == response.evaluation
        w == ev.winnerModelId
    IN /\ w \in Models(answers)
       /\ \A i \in 1..Len(ev.scores) :
            ev.scores[i].num => ev.scores[i].val <= ScoreOf(ev.scores, w)
       /\ \A i \in 1..(AnswerPos(w) - 1) :
            ScoreOf(ev.scores, answers[i].model) < ScoreOf(ev.scores, w)

\* C7 witness: the first two answers tie at one vote each, the vote for the
\* second arrived first, and the first answer wins.
C7_Witness ==
  /\ Returned
  /\ ScoreOf(response.evaluation.scores, answers[1].model) = 1
  /\ ScoreOf(response.evaluation.scores, answers[2].model) = 1
  /\ response.evaluation.judges[1].votedModelId = answers[2].model
  /\ response.evaluation.winnerModelId = answers[1].model

\* C8: when runCrossEvaluation was called without a question, or with fewer
\* than two choices of non-blank text, the turn ends with a 200 whose
\* evaluation is null, and no judge request was issued.
C8_SkippedEvaluationIsNull ==
  (/\ pc = "done"
   /\ EvaluateCalled
   /\ (~QuestionGiven \/ NonBlankCount(choices) < 2))
    => /\ response.status = 200
       /\ response.evaluation.isNull
       /\ \A m \in RegistryIds : judgeCalls[m] = 0

\* The votes of the scenario: A names B, B names B, C has a null vote.
ScenarioABC ==
  /\ Len(answers) = 3
  /\ LET A == answers[1].model
         B == answers[2].model
         C == answers[3].model
         js == response.evaluation.judges
     IN \A i \in 1..Len(js) :
          \/ js[i].judgeModelId = A /\ js[i].votedModelId = B
          \/ js[i].judgeModelId = B /\ js[i].votedModelId = B
          \/ js[i].judgeModelId = C /\ js[i].votedModelId = Null

C10_RoundAlwaysReturns ==
  (/\ pc = "done"
   /\ EvaluateCalled
   /\ QuestionGiven
   /\ NonBlankCount(choices) >= 2)
    => Returned

\* C11: when the turn has its response, no generation call dispatched in the
\* turn is still pending, and when that response carries an evaluation result
\* no judge call dispatched in the turn is still running.
C11_ResponseAfterEveryCallResolved ==
  pc = "done" =>
    /\ \A m \in Range(modelsToCall) : gen[m].st # "pending"
    /\ Returned => \A m \in Models(answers) : judge[m] = "done"

\* C12: when the turn has ended and every dispatched model's generation call
\* failed, the response is a 502 whose details have one entry per dispatched
\* model with that model's status and (when it could be read) body, and no
\* judge request was issued.
C12_AllFailedIs502 ==
  (/\ pc = "done"
   /\ modelsToCall # <<>>
   /\ \A m \in Range(modelsToCall) : CallFailed(m))
    => /\ response.status = 502
       /\ DOMAIN response.details = Range(modelsToCall)
       /\ \A m \in Range(modelsToCall) :
            /\ ~response.details[m].ok
            /\ response.details[m].status = gen[m].status
            /\ gen[m].body # TextThrows => response.details[m].body = gen[m].body
       /\ \A m \in RegistryIds : judgeCalls[m] = 0

\* The statuses a response reports: modelStatuses of a 200, details of a 502.
ReportedStatuses ==
  IF response.status = 200 THEN response.modelStatuses ELSE response.details

\* The scenario of C13: two models dispatched, one answered 429, the other
\* answered with a text.
Scenario429 ==
  /\ pc = "done"
  /\ Len(modelsToCall) = 2
  /\ \E m, n \in Range(modelsToCall) :
       /\ m # n
       /\ gen[m].st = "resolved" /\ ~gen[m].ok /\ gen[m].status = 429
       /\ CallUsable(n)

\* C13: a 200 or a 502 reports one status per dispatched model, ok exactly
\* for the models whose response was a success; in a 200 a success without a
\* message has no entry in choices and is reported ok; and in the scenario of
\* a 429 and a success the response is a 200 with the two statuses, one
\* choice and a null evaluation.
C13_OneStatusPerDispatched ==
  /\ (pc = "done" /\ response.status \in {200, 502}) =>
       /\ DOMAIN ReportedStatuses = Range(modelsToCall)
       /\ \A m \in Range(modelsToCall) :
            /\ ReportedStatuses[m].ok <=> gen[m].ok
            /\ ReportedStatuses[m].status = gen[m].status
            /\ (response.status = 200 /\ gen[m].ok /\ ~gen[m].hasMessage) =>
                 /\ \A i \in 1..Len(response.choices) : response.choices[i].model # m
                 /\ ReportedStatuses[m].ok
  /\ Scenario429 =>
       /\ response.status = 200
       /\ \E m, n \in Range(modelsToCall) :
            /\ m # n
            /\ response.modelStatuses[m].ok = FALSE
            /\ response.modelStatuses[m].status = 429
            /\ response.modelStatuses[n].ok = TRUE
       /\ Len(response.choices) = 1
       /\ response.evaluation.isNull

\* C13 witness: the scenario, the failed model being the first dispatched.
C13_Witness ==
  /\ Scenario429
  /\ ~gen[modelsToCall[1]].ok
  /\ response.status = 200

\* The models that received a generation request, and the judge requests.
Dispatched == {m \in RegistryIds : genCalls[m] > 0}
NoRequestIssued ==
  \A m \in RegistryIds : genCalls[m] = 0 /\ judgeCalls[m] = 0

\* The registry models the body selects: those named in activeModels, all of
\* them when activeModels is not given.
Selected ==
  IF body.activeModels.isArray
    THEN RegistryIds \cap Range(body.activeModels.ids)
    ELSE RegistryIds

\* C14: once a valid request has passed the checks, the models that received
\* a generation request are exactly the registry models the body selects; an
\* id outside the registry causes no error; and when no model is selected the
\* turn has ended with a 400 and no request was issued.
C14_DispatchedIsSelection ==
  (pc # "start" /\ apiKey /\ body.kind = "ok") =>
    /\ Dispatched = Selected
    /\ Selected # {} => response.status # 400
    /\ Selected = {} =>
         /\ pc = "done"
         /\ response.status = 400
         /\ NoRequestIssued

\* C14 witness: the selection names a registry model and an unknown id, only
\* the registry model was called, and the turn ended with a 200.
C14_Witness ==
  /\ pc = "done"
  /\ body.kind = "ok"
  /\ body.activeModels.isArray
  /\ UnknownId \in Range(body.activeModels.ids)
  /\ Cardinality(Dispatched) = 1
  /\ response.status = 200

\* The turn ended with the missing-credential 500.
MissingCredential ==
  response.status = 500 /\ response.error = "Missing OPENROUTER_API_KEY in environment"

\* C15: a turn that ended with the missing-credential 500 or with a 400 has
\* issued no generation and no judge request, and a turn without credential
\* ends with the missing-credential 500 whatever its body.
C15_ErrorsBeforeAnyRequest ==
  pc = "done" =>
    /\ (MissingCredential \/ response.status = 400) => NoRequestIssued
    /\ ~apiKey => MissingCredential

\* C15 witness: neither a credential nor a parsable body, and the turn has
\* ended.
C15_Witness ==
  /\ pc = "done"
  /\ ~apiKey
  /\ body.kind = "invalid"
  /\ MissingCredential

\* The position (from 0) of model m in the list of dispatched models.
DispatchPos(m) == (CHOOSE i \in 1..Len(modelsToCall) : modelsToCall[i] = m) - 1

\* No two answers have the same index.
UniqueIndex ==
  \A i, j \in 1..Len(answers) : answers[i].index = answers[j].index => i = j

\* C16 (as claimed): the index of every answer is the position of its model
\* in the list of dispatched models, and no two answers share an index.
C16_IndexIsDispatchPosition ==
  /\ \A i \in 1..Len(answers) : answers[i].index = DispatchPos(answers[i].model)
  /\ UniqueIndex

\* C16 (amended): the index of every answer is the position of its entry in
\* choices, the list handed to runCrossEvaluation, which holds in dispatch
\* order the models whose response was a success with a message; no two
\* answers share an index; and a choice of blank text keeps its position.
C16_IndexIsChoicePosition ==
  /\ \A i \in 1..Len(answers) :
       /\ answers[i].index + 1 \in 1..Len(choices)
       /\ choices[answers[i].index + 1].model = answers[i].model
  /\ UniqueIndex
  /\ \A i, j \in 1..Len(choices) :
       i < j => DispatchPos(choices[i].model) < DispatchPos(choices[j].model)

\* C16 witness: the call of the first dispatched model failed, and the first
\* answer has index 0.
C16_Witness ==
  /\ Len(answers) >= 2
  /\ ~gen[modelsToCall[1]].ok
  /\ answers[1].index = 0
  /\ DispatchPos(answers[1].model) = 1

RECURSIVE SumCalls(_, _)
SumCalls(calls, S) ==
  IF S = {} THEN 0
  ELSE LET m == CHOOSE x \in S : TRUE
       IN calls[m] + SumCalls(calls, S \ {m})

\* C17: no model receives more than one generation request or more than one
\* judge request in a turn; after the dispatch the generation requests are as
\* many as the dispatched models; and the judge requests are as many as the
\* answers once the judges were started, and none before or when the
\* evaluation is skipped.
C17_NoRetries ==
  /\ \A m \in RegistryIds : genCalls[m] <= 1 /\ judgeCalls[m] <= 1
  /\ SumCalls(genCalls, RegistryIds) = Len(modelsToCall)
  /\ SumCalls(judgeCalls, RegistryIds) =
       IF pc = "judging" \/ Returned THEN Len(answers) ELSE 0

\* C17 witness: a turn that ended with a result although a generation call
\* and a judge call had failed.
C17_Witness ==
  /\ Returned
  /\ \E m \in Range(modelsToCall) : ~gen[m].ok
  /\ \E i \in 1..Len(judgesResults) : judgesResults[i].votedModelId = Null
  /\ SumCalls(genCalls, RegistryIds) = 3
  /\ SumCalls(judgeCalls, RegistryIds) = 2

\* The candidates whose score differs between two tallies.
Changed(before, after, as) ==
  {X \in Models(as) : ScoreOf(after, X) # ScoreOf(before, X)}

\* C18: every step that records a vote changes the score of at most one
\* candidate, by exactly one, and after it the score of every candidate X is
\* the number of recorded votes that name X; so it is in the result, in
\* whatever order the judges finished and however many of them named X.
C18_NoLostUpdate ==
  [][judgesResults' # judgesResults =>
       /\ Cardinality(Changed(globalScores, globalScores', answers)) <= 1
       /\ \A X \in Changed(globalScores, globalScores', answers) :
            ScoreOf(globalScores', X) = ScoreOf(globalScores, X) + 1
       /\ \A X \in Models(answers) :
            ScoreOf(globalScores', X) = VotesIn(judgesResults', {X})]_vars

\* C18 witness: a returned result in which three judges named the same
\* candidate, the last of them being the first judge started.
C18_Witness ==
  /\ Returned
  /\ Len(answers) = 3
  /\ ScoreOf(response.evaluation.scores, answers[2].model) = 3
  /\ response.evaluation.judges[3].judgeModelId = answers[1].model

\* A judge's step that is one of the failure outcomes.
JudgeFails(m) ==
  \/ JudgeHttpFailure(m)
  \/ JudgeFetchThrows(m)
  \/ JudgeJsonThrows(m)
  \/ JudgeContentNotString(m)
  \/ JudgeParseFails(m)
  \/ JudgeNoWinnerId(m)

\* C19: a judge's step that is a failure outcome (status not ok, fetch or
\* json() rejected, content not a string, text not JSON, no string
\* winner_model_id) records one vote of that judge with votedModelId null,
\* changes no score, and leaves the evaluation running without a response.
C19_JudgeFailureIsNullVote ==
  [][\A m \in RegistryIds :
       JudgeFails(m) =>
         /\ Len(judgesResults') = Len(judgesResults) + 1
         /\ judgesResults'[Len(judgesResults')].judgeModelId = m
         /\ judgesResults'[Len(judgesResults')].votedModelId = Null
         /\ globalScores' = globalScores
         /\ pc' = "judging"
         /\ response' = NoResponse]_vars

\* C19 witness: a returned result with a null vote and a counted vote.
C19_Witness ==
  /\ Returned
  /\ \E i \in 1..Len(response.evaluation.judges) :
       response.evaluation.judges[i].votedModelId = Null
  /\ \E X \in Models(answers) : ScoreOf(response.evaluation.scores, X) = 1

\* The answers of the models other than m, in the order of answers.
OtherAnswers(m) == SelectSeq(answers, LAMBDA a : a.model # m)

\* C20: the request of every judge lists the answers of the other models and
\* only those, one fewer than the answers, in the order of answers, numbered
\* from 1, each with its model id and its text; the judge's own model id is
\* not among them.
C20_JudgeSeesTheOthers ==
  \A m \in RegistryIds :
    judgeCalls[m] > 0 =>
      /\ Len(judgeMessages[m]) = Len(answers) - 1
      /\ \A i \in 1..Len(judgeMessages[m]) :
           /\ judgeMessages[m][i].ordinal = i
           /\ judgeMessages[m][i].model # m
           /\ judgeMessages[m][i].model = OtherAnswers(m)[i].model
           /\ judgeMessages[m][i].content = OtherAnswers(m)[i].content

\* C20 witness: three answers, and the judge of the second answer is shown
\* the first and the third.
C20_Witness ==
  /\ pc = "judging"
  /\ Len(answers) = 3
  /\ Len(judgeMessages[answers[2].model]) = 2
  /\ judgeMessages[answers[2].model][1].model = answers[1].model
  /\ judgeMessages[answers[2].model][2].model = answers[3].model

\* The generation call of m gave no answer: it failed, or its message has a
\* text that is empty or only whitespace.
CallBlank(m) ==
  /\ gen[m].st = "resolved" /\ gen[m].ok /\ gen[m].json /\ gen[m].hasMessage
  /\ gen[m].content.t = "string" /\ Len(Trim(gen[m].content.s)) = 0
Discarded(m) == m \in Range(modelsToCall) /\ (CallFailed(m) \/ CallBlank(m))

\* C21: a dispatched model whose call failed or whose text is empty or only
\* whitespace is no answer, receives no judge request, casts no vote, is no
\* key of the scores (also when a judge names it), and is not the winner.
C21_DiscardedIsNoCandidate ==
  \A m \in RegistryIds :
    Discarded(m) =>
      /\ m \notin Models(answers)
      /\ judgeCalls[m] = 0 /\ judge[m] = "idle"
      /\ \A i \in 1..Len(judgesResults) : judgesResults[i].judgeModelId # m
      /\ m \notin Keys(globalScores)
      /\ Returned =>
           /\ m \notin Keys(response.evaluation.scores)
           /\ response.evaluation.winnerModelId # m

\* C21 witness: a result of a turn in which a judge named a dispatched model
\* whose text was only whitespace.
C21_Witness ==
  /\ Returned
  /\ \E m \in Range(modelsToCall) :
       /\ CallBlank(m)
       /\ Len(gen[m].content.s) > 0
       /\ \E i \in 1..Len(judgesResults) : judgesResults[i].votedModelId = m

\* C22: in every returned result winnerIndex is not null, exactly one answer
\* has the winner's model id, winnerIndex is the index of that answer, and no
\* answer of another model has that index.
C22_WinnerIndexIsWinnersIndex ==
  Returned =>
    LET ev == response.evaluation
    IN /\ ev.winnerIndex # NullIndex
       /\ Cardinality({i \in 1..Len(answers) : answers[i].model = ev.winnerModelId}) = 1
       /\ \A i \in 1..Len(answers) :
            answers[i].model = ev.winnerModelId <=> answers[i].index = ev.winnerIndex

\* C22 witness: the winner is the first answer and its index is 1, the choice
\* before it having a blank text.
C22_Witness ==
  /\ Returned
  /\ response.evaluation.winnerModelId = answers[1].model
  /\ response.evaluation.winnerIndex = 1

\* The object of the example, bare and inside a json fence.
BareObject == <<"{", WinnerX, "}">>
FencedObject ==
  Fence \o <<"j", "s", "o", "n", "\n">> \o BareObject \o <<"\n">> \o Fence

\* s, cut from its first c to its last d, both included.
Between(s, c, d) ==
  LET i == CHOOSE k \in 1..Len(s) : s[k] = c /\ \A j \in 1..(k - 1) : s[j] # c
      l == CHOOSE k \in 1..Len(s) : s[k] = d /\ \A j \in (k + 1)..Len(s) : s[j] # d
  IN [k \in 1..(l - i + 1) |-> s[i + k - 1]]

\* C23: of a reply that starts with a fence and has both braces, the text
\* parsed is the part from its first "{" to its last "}"; a reply that does
\* not start with a fence is parsed as it is, trimmed; the object of the
\* example inside a json fence gives the vote X, as the bare object does; and
\* without a fence the vote is X exactly when the reply is that object.
C23_FencedObjectIsExtracted ==
  LET t == Trim(parser.content)
      fenced == StartsWith(t, Fence)
  IN /\ parser.stage \in {"text", "parsed"} =>
          /\ (fenced /\ "{" \in Range(t) /\ "}" \in Range(t)) =>
               parser.text = Between(t, "{", "}")
          /\ ~fenced => parser.text = t
     /\ parser.stage = "parsed" =>
          /\ parser.content = FencedObject => parser.votedModelId = VotedX
          /\ parser.content = BareObject => parser.votedModelId = VotedX
          /\ ~fenced =>
               (parser.votedModelId = VotedX <=> WithoutSpace(t) = BareObject)

\* C23 witness: the fenced object of the example has been parsed to the vote X.
C23_Witness ==
  /\ parser.stage = "parsed"
  /\ parser.content = FencedObject
  /\ parser.text = BareObject
  /\ parser.votedModelId = VotedX

\* What each judge answered, whatever the order of the answers: the id named
\* by the vote of judge m.
VoteOfJudge(judges, m) ==
  judges[CHOOSE i \in 1..Len(judges) : judges[i].judgeModelId = m].votedModelId

\* How many judges named X, counted over the judges and not over their order.
NamedBy(judges, X) ==
  Cardinality({m \in Range(JudgeIds(judges)) : VoteOfJudge(judges, m) = X})

\* C24: the result is a function of the answers and of what each judge
\* answered, the order in which the judges finished playing no part: every
\* candidate's score is the number of judges that named it, every other key
\* of scores is an id that some judge named, with the number of judges that
\* named it, the winner is the first answer of greatest score in the order of
\* the answers, and winnerIndex is that answer's index; judges holds the
\* same votes in the order of finishing.
C24_ResultIgnoresFinishingOrder ==
  Returned =>
    LET ev == response.evaluation
        count(X) == NamedBy(ev.judges, X)
    IN /\ Range(JudgeIds(ev.judges)) = Models(answers)
       /\ Len(ev.judges) = Len(answers)
       /\ \A i \in 1..Len(answers) :
            ScoreOf(ev.scores, answers[i].model) = count(answers[i].model)
       /\ \A k \in Keys(ev.scores) \ Models(answers) :
            ScoreOf(ev.scores, k) = count(k) /\ count(k) > 0
       /\ \E w \in 1..Len(answers) :
            /\ \A j \in 1..Len(answers) :
                 count(answers[j].model) <= count(answers[w].model)
            /\ \A j \in 1..(w - 1) :
                 count(answers[j].model) < count(answers[w].model)
            /\ ev.winnerModelId = answers[w].model
            /\ ev.winnerIndex = answers[w].index

\* C24 witness: three judges finished in the reverse of the order of the
\* answers, the second and the third answer have one vote each, and the
\* second answer wins.
C24_Witness ==
  /\ Returned
  /\ Len(answers) = 3
  /\ \A i \in 1..3 : response.evaluation.judges[i].judgeModelId = answers[4 - i].model
  /\ ScoreOf(response.evaluation.scores, answers[1].model) = 0
  /\ ScoreOf(response.evaluation.scores, answers[2].model) = 1
  /\ ScoreOf(response.evaluation.scores, answers[3].model) = 1
  /\ response.evaluation.judges[1].votedModelId = answers[3].model
  /\ response.evaluation.winnerModelId = answers[2].model

\* The position of model m in the registry.
RegistryPos(m) == CHOOSE i \in 1..Len(allModels) : allModels[i] = m

\* The models of seq are registry models in the order of the registry, none
\* of them twice.
InRegistryOrder(seq) ==
  /\ \A i \in 1..Len(seq) : seq[i] \in RegistryIds
  /\ \A i, j \in 1..Len(seq) : i < j => RegistryPos(seq[i]) < RegistryPos(seq[j])

\* C25: the dispatched models are a subsequence of the registry, whatever the
\* order of the ids in the selection and however often an id is repeated in
\* it; each is called once; and the choices and the answers follow the same
\* order.
C25_DispatchInRegistryOrder ==
  /\ InRegistryOrder(modelsToCall)
  /\ \A m \in RegistryIds : genCalls[m] <= 1
  /\ InRegistryOrder([i \in 1..Len(choices) |-> choices[i].model])
  /\ InRegistryOrder([i \in 1..Len(answers) |-> answers[i].model])

\* C25 witness: the selection names the second registry model before the
\* first, or the first twice, and the answers or the one call are in the
\* order of the registry.
C25_Witness ==
  /\ body.kind = "ok" /\ body.activeModels.isArray
  /\ \/ /\ body.activeModels.ids = <<allModels[2], allModels[1]>>
        /\ Len(answers) = 2
        /\ answers[1].model = allModels[1] /\ answers[2].model = allModels[2]
     \/ /\ body.activeModels.ids = <<allModels[1], allModels[1]>>
        /\ pc = "done"
        /\ modelsToCall = <<allModels[1]>>
        /\ genCalls[allModels[1]] = 1

\* The columns of the models that the reply reports with status 402 or 429
\* or with a failure body that mentions a limit.
ReportedLimited(r) ==
  {MODEL_ID_TO_KEY(m) : m \in {x \in DOMAIN r.statuses :
     /\ ~r.statuses[x].ok
     /\ \/ r.statuses[x].status \in {402, 429}
        \/ r.statuses[x].body \in {QuotaBody, RateBody}}}

\* C26: when a response has been handled, every column it reported as
\* limited is disabled, and no column that was disabled is enabled; a submit
\* sends the enabled columns' models and nothing else; and with every column
\* disabled a submit sends no request.
C26_AutoDisableIsEffective ==
  [][/\ (client.isLoading /\ ~client'.isLoading) =>
          /\ \A k \in ReportedLimited(client'.reply) : ~client'.enabledModels[k]
          /\ \A k \in ColumnKeys :
               client'.enabledModels[k] => client.enabledModels[k]
     /\ (~client.isLoading /\ client'.isLoading) =>
          /\ client'.activeModels # <<>>
          /\ \A i \in 1..Len(MODEL_COLUMNS) :
               client.enabledModels[MODEL_COLUMNS[i].key]
                 <=> MODEL_COLUMNS[i].modelId \in Range(client'.activeModels)]_vars

====
